---- MODULE Spec2Model ----
(***************************************************************************)
(* Loan offer service: validateLoanRequest, processLoanOffer,              *)
(* calculateEMI and generateAmortizationSchedule of the service layer      *)
(* (src/unnamed/part_000), with the configuration (src/config/config.js)   *)
(* and the response helpers (src/utils/responseHelper.js) they use; the    *)
(* same calls made by parallel workers; and the loanOffer route            *)
(* (src/routes/apiRoutes.js) with its authentication middleware            *)
(* (src/middleware/authMiddleware.js) and controller.                      *)
(*                                                                         *)
(* Numbers.  A JavaScript number is an IEEE double.  The calculator's      *)
(* finite values are modelled by the exact real number the double          *)
(* approximates, written n / RateScale^e with n an unbounded signed        *)
(* integer (a limb sequence), and NaN, Infinity and -Infinity are kept     *)
(* as values of their own with the IEEE rules for them.  Money amounts     *)
(* are whole currency units, rates are carried in tenths of a percent      *)
(* (roi 5.5 is the integer 55), so roi / (12 * 100) is roi10 / 12000.      *)
(***************************************************************************)
EXTENDS Integers, Sequences, FiniteSets, TLC

VARIABLES op, arg, ret, trace, workers, frames, config, returned, http

vars == <<op, arg, ret, trace, workers, frames, config, returned, http>>

\* what a single call of the service layer runs on
callVars == <<op, arg, ret, trace>>

\* what the parallel workers run on
workerVars == <<workers, frames, config, returned>>

(***************************************************************************)
(* Unbounded naturals: sequences of limbs in base 10^4, least significant  *)
(* first, without leading zero limbs; zero is the empty sequence.  Carries *)
(* are found by lookahead, so that no operator recurses over more than     *)
(* the limbs of one operand.                                               *)
(***************************************************************************)
Base == 10^4

Limb(a, i) == IF i <= Len(a) THEN a[i] ELSE 0

NatNorm(a) ==
    LET K == {i \in 1..Len(a) : a[i] # 0}
        top == IF K = {} THEN 0 ELSE CHOOSE i \in K : \A j \in K : j <= i
    IN  SubSeq(a, 1, top)

\* for 0 <= k < 2^31
NatFromInt(k) == NatNorm(<<k % Base, (k \div Base) % Base, k \div (Base * Base)>>)

\* for a < 2^31
NatToInt(a) == Limb(a, 1) + Base * Limb(a, 2) + Base * Base * Limb(a, 3)

NatAdd(a, b) ==
    LET L == (IF Len(a) >= Len(b) THEN Len(a) ELSE Len(b)) + 1
        s == [i \in 1..L |-> Limb(a, i) + Limb(b, i)]
        carry == [i \in 1..L |->
                     IF \E j \in 1..(i - 1) :
                            s[j] >= Base /\ \A k \in (j + 1)..(i - 1) : s[k] = Base - 1
                     THEN 1 ELSE 0]
    IN  NatNorm([i \in 1..L |-> (s[i] + carry[i]) % Base])

\* -1, 0, 1 as a < b, a = b, a > b
NatCmp(a, b) ==
    IF Len(a) < Len(b) THEN -1
    ELSE IF Len(a) > Len(b) THEN 1
    ELSE LET D == {i \in 1..Len(a) : a[i] # b[i]}
         IN  IF D = {} THEN 0
             ELSE LET i == CHOOSE i \in D : \A j \in D : j <= i
                  IN  IF a[i] < b[i] THEN -1 ELSE 1

\* a - b for a >= b
NatSub(a, b) ==
    LET borrow == [i \in 1..Len(a) |->
                      IF \E j \in 1..(i - 1) :
                             /\ Limb(a, j) < Limb(b, j)
                             /\ \A k \in (j + 1)..(i - 1) : Limb(a, k) = Limb(b, k)
                      THEN 1 ELSE 0]
    IN  NatNorm([i \in 1..Len(a) |-> (a[i] - Limb(b, i) - borrow[i]) % Base])

\* a * d for one limb 0 <= d < Base: the low halves plus the shifted high halves
NatMulLimb(a, d) ==
    NatAdd(NatNorm([i \in 1..Len(a) |-> (a[i] * d) % Base]),
           NatNorm(<<0>> \o [i \in 1..Len(a) |-> (a[i] * d) \div Base]))

NatShift(a, m) == IF a = <<>> THEN <<>> ELSE [i \in 1..m |-> 0] \o a

\* a * (the limbs j.. of b), shifted to their place
RECURSIVE NatMulFrom(_, _, _)
NatMulFrom(a, b, j) ==
    IF j > Len(b) THEN <<>>
    ELSE NatAdd(NatShift(NatMulLimb(a, b[j]), j - 1), NatMulFrom(a, b, j + 1))

NatMul(a, b) == IF Len(a) >= Len(b) THEN NatMulFrom(a, b, 1) ELSE NatMulFrom(b, a, 1)

\* <<floor(a / d), a mod d>> for an integer 0 < d <= 2 * 10^5, from limb i down
RECURSIVE NatDivSmallFrom(_, _, _)
NatDivSmallFrom(a, d, i) ==
    IF i > Len(a) THEN <<<<>>, 0>>
    ELSE LET hi == NatDivSmallFrom(a, d, i + 1)
             cur == hi[2] * Base + a[i]
         IN  <<<<cur \div d>> \o hi[1], cur % d>>

NatDivSmall(a, d) == NatNorm(NatDivSmallFrom(a, d, 1)[1])

NatModSmall(a, d) == NatDivSmallFrom(a, d, 1)[2]

\* floor(x / y) for y > 0 and a quotient below 10^9, one decimal digit at a time
\* from 10^j down, acc being the digits found
RECURSIVE QuotFrom(_, _, _, _)
QuotFrom(x, y, j, acc) ==
    IF j < 0 THEN acc
    ELSE LET fits(d) == NatCmp(NatMul(y, NatFromInt(acc + d * 10^j)), x) <= 0
             d == CHOOSE d \in 0..9 : fits(d) /\ (d = 9 \/ ~fits(d + 1))
         IN  QuotFrom(x, y, j - 1, acc + d * 10^j)

QuotInt(x, y) == QuotFrom(x, y, 8, 0)

(***************************************************************************)
(* Unbounded integers: a sign and a magnitude; zero is never negative.     *)
(***************************************************************************)
ZMake(neg, mag) == [neg |-> neg /\ mag # <<>>, mag |-> mag]

ZFromInt(k) == IF k < 0 THEN ZMake(TRUE, NatFromInt(-k)) ELSE ZMake(FALSE, NatFromInt(k))

ZToInt(z) == IF z.neg THEN -NatToInt(z.mag) ELSE NatToInt(z.mag)

ZNeg(z) == ZMake(~z.neg, z.mag)

ZIsZero(z) == z.mag = <<>>

ZAdd(x, y) ==
    IF x.neg = y.neg THEN ZMake(x.neg, NatAdd(x.mag, y.mag))
    ELSE IF NatCmp(x.mag, y.mag) >= 0 THEN ZMake(x.neg, NatSub(x.mag, y.mag))
    ELSE ZMake(y.neg, NatSub(y.mag, x.mag))

ZSub(x, y) == ZAdd(x, ZNeg(y))

ZMul(x, y) == ZMake(x.neg # y.neg, NatMul(x.mag, y.mag))

\* floor(x / d) for an integer 0 < d <= 2 * 10^5
ZFloorDivSmall(x, d) ==
    IF ~x.neg THEN ZMake(FALSE, NatDivSmall(x.mag, d))
    ELSE IF NatModSmall(x.mag, d) = 0 THEN ZMake(TRUE, NatDivSmall(x.mag, d))
    ELSE ZMake(TRUE, NatAdd(NatDivSmall(x.mag, d), <<1>>))

\* floor(x / y) for a natural y > 0 and a quotient below 10^9 in size
ZFloorQuot(x, y) ==
    IF ~x.neg THEN ZFromInt(QuotInt(x.mag, y))
    ELSE ZFromInt(-QuotInt(NatSub(NatAdd(x.mag, y), <<1>>), y))

(***************************************************************************)
(* JavaScript numbers of the calculator: NaN, the infinities, and the      *)
(* finite values n / RateScale^e.                                          *)
(***************************************************************************)
\* 12 * 100 of roi / (12 * 100), times 10 because roi is carried in tenths
RateScale == (12 * 100) * 10

RECURSIVE ZScaleUp(_, _)
ZScaleUp(n, m) == IF m = 0 THEN n ELSE ZScaleUp(ZMul(n, ZFromInt(RateScale)), m - 1)

RECURSIVE ZScaleDown(_, _)
ZScaleDown(n, m) == IF m = 0 THEN n ELSE ZScaleDown(ZFloorDivSmall(n, RateScale), m - 1)

Fin(n, e) == [k |-> "fin", n |-> n, e |-> e]

NaN == [k |-> "nan", n |-> ZFromInt(0), e |-> 0]

PosInf == [k |-> "inf", n |-> ZFromInt(0), e |-> 0]

NegInf == [k |-> "ninf", n |-> ZFromInt(0), e |-> 0]

FInt(i) == Fin(ZFromInt(i), 0)

\* the numerator of a finite x over RateScale^e, for e >= x.e
FNumAt(x, e) == ZScaleUp(x.n, e - x.e)

FMaxE(x, y) == IF x.e >= y.e THEN x.e ELSE y.e

\* -1, 0, 1: the sign of a value that is not NaN
FSign(x) ==
    IF x.k = "inf" THEN 1
    ELSE IF x.k = "ninf" THEN -1
    ELSE IF ZIsZero(x.n) THEN 0
    ELSE IF x.n.neg THEN -1 ELSE 1

FOfSign(s) == IF s < 0 THEN NegInf ELSE PosInf

FNeg(x) ==
    IF x.k = "nan" THEN NaN
    ELSE IF x.k = "inf" THEN NegInf
    ELSE IF x.k = "ninf" THEN PosInf
    ELSE Fin(ZNeg(x.n), x.e)

\* x + y
FAdd(x, y) ==
    IF x.k = "nan" \/ y.k = "nan" THEN NaN
    ELSE IF x.k # "fin" /\ y.k # "fin" THEN (IF x.k = y.k THEN x ELSE NaN)
    ELSE IF x.k # "fin" THEN x
    ELSE IF y.k # "fin" THEN y
    ELSE LET e == FMaxE(x, y) IN Fin(ZAdd(FNumAt(x, e), FNumAt(y, e)), e)

\* x - y
FSub(x, y) == FAdd(x, FNeg(y))

\* x * y
FMul(x, y) ==
    IF x.k = "nan" \/ y.k = "nan" THEN NaN
    ELSE IF x.k # "fin" \/ y.k # "fin"
         THEN (IF FSign(x) = 0 \/ FSign(y) = 0 THEN NaN ELSE FOfSign(FSign(x) * FSign(y)))
    ELSE Fin(ZMul(x.n, y.n), x.e + y.e)

\* x^m for a natural m; Math.pow(x, 0) is 1 for every x
RECURSIVE FPowNat(_, _)
FPowNat(x, m) == IF m = 0 THEN FInt(1) ELSE FMul(x, FPowNat(x, m - 1))

\* Math.round(c) = floor(c + 1/2), from twice == floor(2 * c)
HalfUp(twice) == ZFloorDivSmall(ZAdd(twice, ZFromInt(1)), 2)

\* a whole number of cents as a value
FCents(c) == Fin(ZMul(c, ZFromInt(RateScale \div 100)), 1)

\* Math.round(x * 100) / 100
Round2(x) ==
    IF x.k # "fin" THEN x
    ELSE FCents(HalfUp(ZScaleDown(ZMul(ZFromInt(2 * 100), x.n), x.e)))

\* Math.round((top / bottom) * 100) / 100, the division being JavaScript's:
\* 0/0 is NaN and a nonzero value over zero is an infinity
RoundedQuotient(top, bottom) ==
    IF top.k = "nan" \/ bottom.k = "nan" THEN NaN
    ELSE IF top.k # "fin" /\ bottom.k # "fin" THEN NaN
    ELSE IF top.k # "fin" THEN FOfSign(FSign(top) * (IF FSign(bottom) < 0 THEN -1 ELSE 1))
    ELSE IF bottom.k # "fin" THEN FInt(0)
    ELSE IF FSign(bottom) = 0
         THEN (IF FSign(top) = 0 THEN NaN ELSE FOfSign(FSign(top)))
    ELSE LET e == FMaxE(top, bottom)
             t == FNumAt(top, e)
             b == FNumAt(bottom, e)
             num == IF b.neg THEN ZNeg(t) ELSE t
         IN  FCents(HalfUp(ZFloorQuot(ZMul(ZFromInt(2 * 100), num), b.mag)))

\* Math.max(0, x)
MathMax0(x) ==
    IF x.k = "nan" THEN NaN
    ELSE IF FSign(x) < 0 THEN FCents(ZFromInt(0))
    ELSE x

\* the cents of a finite value that has two decimals
CentsOf(x) == ZToInt(ZScaleDown(ZMul(ZFromInt(100), x.n), x.e))

(***************************************************************************)
(* calculateEMI and generateAmortizationSchedule.  principal and tenure    *)
(* are integers, roi is in tenths of a percent.                            *)
(***************************************************************************)
\* roi / (12 * 100)
MonthlyRate(roi) == Fin(ZFromInt(roi), 1)

\* Math.pow(x, tenure) as the quotient PowNum / PowDen: x^tenure over 1 for
\* tenure >= 0, 1 over x^(-tenure) for tenure < 0
PowNum(x, tenure) == IF tenure >= 0 THEN FPowNat(x, tenure) ELSE FInt(1)

PowDen(x, tenure) == IF tenure >= 0 THEN FInt(1) ELSE FPowNat(x, -tenure)

\* principal * r * pow / (pow - 1) rounded to 2 decimals; with pow = pn / pd
\* (pd > 0) the quotient is (principal * r * pn) / (pn - pd)
calculateEMI(principal, roi, tenure) ==
    LET monthlyRate == MonthlyRate(roi)
        pn == PowNum(FAdd(FInt(1), monthlyRate), tenure)
        pd == PowDen(FAdd(FInt(1), monthlyRate), tenure)
    IN  RoundedQuotient(FMul(FMul(FInt(principal), monthlyRate), pn), FSub(pn, pd))

ScheduleEntry(month, emi, principalPaid, interest, balance) ==
    [month |-> month,
     emi |-> Round2(emi),
     principalPaid |-> Round2(principalPaid),
     interestPaid |-> Round2(interest),
     balance |-> MathMax0(Round2(balance))]

\* the for loop from `month` on, `balance` being the running balance
RECURSIVE ScheduleLoop(_, _, _, _, _, _)
ScheduleLoop(month, tenure, balance, emi, monthlyRate, schedule) ==
    IF month > tenure THEN schedule
    ELSE LET interest == FMul(balance, monthlyRate)
             principalPaid == FSub(emi, interest)
             newBalance == FSub(balance, principalPaid)
         IN  ScheduleLoop(month + 1, tenure, newBalance, emi, monthlyRate,
                          Append(schedule,
                                 ScheduleEntry(month, emi, principalPaid, interest, newBalance)))

\* generateAmortizationSchedule with the loop started at month 0
generateAmortizationSchedule_FromZero(principal, roi, tenure) ==
    ScheduleLoop(0, tenure, FInt(principal), calculateEMI(principal, roi, tenure),
                 MonthlyRate(roi), <<>>)

generateAmortizationSchedule(principal, roi, tenure) ==
    ScheduleLoop(1, tenure, FInt(principal), calculateEMI(principal, roi, tenure),
                 MonthlyRate(roi), <<>>)

(***************************************************************************)
(* Request values.  A JavaScript value of a request is undefined, null, a  *)
(* number (an integer, or NaN) or a string (a sequence of characters); a   *)
(* field map holds one value per field, undefined for an absent field.     *)
(***************************************************************************)
JsUndefined == [t |-> "undefined", n |-> 0, nan |-> FALSE, s |-> <<>>]

JsNull == [t |-> "null", n |-> 0, nan |-> FALSE, s |-> <<>>]

JsNum(n) == [t |-> "number", n |-> n, nan |-> FALSE, s |-> <<>>]

JsNaN == [t |-> "number", n |-> 0, nan |-> TRUE, s |-> <<>>]

JsStr(s) == [t |-> "string", n |-> 0, nan |-> FALSE, s |-> s]

JsObject(f) == [t |-> "object", f |-> f]

\* v === undefined || v === null
IsNullish(v) == v.t \in {"undefined", "null"}

\* typeof v !== "number"
NotNumber(v) == v.t # "number"

\* v < bound and v > bound for a number v: both false for NaN
JsLt(v, bound) == ~v.nan /\ v.n < bound

JsGt(v, bound) == ~v.nan /\ v.n > bound

\* ToBoolean(v)
Truthy(v) ==
    IF v.t = "number" THEN ~v.nan /\ v.n # 0
    ELSE IF v.t = "string" THEN v.s # <<>>
    ELSE v.t = "object"

DigitChars == <<"0", "1", "2", "3", "4", "5", "6", "7", "8", "9">>

RECURSIVE DigitsOf(_)
DigitsOf(n) == IF n < 10 THEN <<DigitChars[n + 1]>> ELSE DigitsOf(n \div 10) \o <<DigitChars[(n % 10) + 1]>>

\* String(v), the conversion RegExp.prototype.test applies to its argument
JsToString(v) ==
    IF v.t = "string" THEN v.s
    ELSE IF v.t = "number"
         THEN (IF v.nan THEN <<"N", "a", "N">>
               ELSE IF v.n < 0 THEN <<"-">> \o DigitsOf(-v.n) ELSE DigitsOf(v.n))
    ELSE IF v.t = "null" THEN <<"n", "u", "l", "l">>
    ELSE <<"u", "n", "d", "e", "f", "i", "n", "e", "d">>

(***************************************************************************)
(* config.js                                                               *)
(***************************************************************************)
errorCodes ==
    [invalidToken |-> "E001", missingParameters |-> "E002", invalidLoanAmount |-> "E003",
     invalidTenure |-> "E004", serverError |-> "E999"]

statusCodes == [success |-> "SR", error |-> "ER"]

minAmount == 10000

maxAmount == 10000000

minTenure == 3

maxTenure == 84

\* 5.5 percent, in tenths
minRoi == 55

\* 24.0 percent, in tenths
maxRoi == 240

\* process.env.NODE_ENV || "development", the environment left unset
NodeEnv == "development"

\* /^<prefix>[0-9]{lo,hi}$/.test(s)
PrefixDigitsTest(s, prefix, lo, hi) ==
    /\ Len(s) >= Len(prefix)
    /\ SubSeq(s, 1, Len(prefix)) = prefix
    /\ Len(s) - Len(prefix) \in lo..hi
    /\ \A i \in (Len(prefix) + 1)..Len(s) : \E d \in 1..10 : s[i] = DigitChars[d]

\* /^ORD[0-9]{6,10}$/
orderIdRegexTest(s) == PrefixDigitsTest(s, <<"O", "R", "D">>, 6, 10)

\* /^TXN[0-9]{4,12}$/
transactionIdRegexTest(s) == PrefixDigitsTest(s, <<"T", "X", "N">>, 4, 12)

(***************************************************************************)
(* responseHelper.js                                                       *)
(***************************************************************************)
successResponse(data) == [data |-> data, statusMessage |-> "Success", statusCode |-> statusCodes.success]

\* errorResponse with its two arguments stored in each other's place
errorResponse_Swapped(errorCode, errorMessage) ==
    [data |-> [errorMessage |-> errorCode, errorCode |-> errorMessage, redirectionURL |-> JsStr(<<>>)],
     statusMessage |-> "Error",
     statusCode |-> statusCodes.error]

errorResponse(errorCode, errorMessage) ==
    [data |-> [errorMessage |-> errorMessage, errorCode |-> errorCode, redirectionURL |-> JsStr(<<>>)],
     statusMessage |-> "Error",
     statusCode |-> statusCodes.error]

validationError(errorMessage) == errorResponse(errorCodes.missingParameters, errorMessage)

authError(errorMessage) == errorResponse(errorCodes.invalidToken, errorMessage)

serverError(error) ==
    errorResponse(errorCodes.serverError,
                  IF NodeEnv = "production" THEN "Internal server error"
                  ELSE IF error.message # "" THEN error.message ELSE "Unknown server error")

(***************************************************************************)
(* The service layer: the outcome of a call is a returned value or a       *)
(* thrown error.                                                           *)
(***************************************************************************)
Return(v) == [threw |-> FALSE, val |-> v]

Throw(name, message) == [threw |-> TRUE, val |-> [name |-> name, message |-> message]]

\* validateToken asking for a longer token than the middleware does
validateToken_Longer(token) == Truthy(token) /\ token.t = "string" /\ Len(token.s) >= 2 * 32

\* token && token.length >= 32, as the condition !validateToken(token) reads it
validateToken(token) == Truthy(token) /\ token.t = "string" /\ Len(token.s) >= 32

requiredFields ==
    <<"orderId", "transactionId", "loanAmount", "roi", "tenure", "downpayment",
      "processingFee", "tvsTransactionId">>

Invalid(errorCode, message) == [isValid |-> FALSE, errorCode |-> errorCode, message |-> message]

\* { isValid: true, message: "" }: the result carries no errorCode
Valid == [isValid |-> TRUE, errorCode |-> "undefined", message |-> ""]

\* the positions in requiredFields of the fields that are undefined or null
MissingFields(f) == {i \in 1..Len(requiredFields) : IsNullish(f[requiredFields[i]])}

FirstMissing(f) == requiredFields[CHOOSE i \in MissingFields(f) : \A j \in MissingFields(f) : i <= j]

OrderIdInvalid(f) == ~orderIdRegexTest(JsToString(f.orderId))

TransactionIdInvalid(f) == ~transactionIdRegexTest(JsToString(f.transactionId))

LoanAmountInvalid(f) ==
    NotNumber(f.loanAmount) \/ JsLt(f.loanAmount, minAmount) \/ JsGt(f.loanAmount, maxAmount)

TenureInvalid(f) ==
    NotNumber(f.tenure) \/ JsLt(f.tenure, minTenure) \/ JsGt(f.tenure, maxTenure)

RoiInvalid(f) == NotNumber(f.roi) \/ JsLt(f.roi, minRoi) \/ JsGt(f.roi, maxRoi)

DownpaymentInvalid(f) == NotNumber(f.downpayment) \/ JsLt(f.downpayment, 0)

\* validateLoanRequest with the tenure check moved before the loan amount check
validateLoanRequest_TenureFirst(data) ==
    IF IsNullish(data)
    THEN Throw("TypeError", "Cannot read properties of " \o data.t \o " (reading 'orderId')")
    ELSE IF MissingFields(data.f) # {}
    THEN Return(Invalid(errorCodes.missingParameters,
                        "Missing required parameter: " \o FirstMissing(data.f)))
    ELSE IF OrderIdInvalid(data.f)
    THEN Return(Invalid(errorCodes.missingParameters, "Order ID format is invalid"))
    ELSE IF TransactionIdInvalid(data.f)
    THEN Return(Invalid(errorCodes.missingParameters, "Transaction ID format is invalid"))
    ELSE IF TenureInvalid(data.f)
    THEN Return(Invalid(errorCodes.invalidTenure, "Tenure must be between 3 and 84 months"))
    ELSE IF LoanAmountInvalid(data.f)
    THEN Return(Invalid(errorCodes.invalidLoanAmount,
                        "Loan amount must be between 10000 and 10000000"))
    ELSE IF RoiInvalid(data.f)
    THEN Return(Invalid(errorCodes.missingParameters, "ROI must be between 5.5% and 24%"))
    ELSE IF DownpaymentInvalid(data.f)
    THEN Return(Invalid(errorCodes.missingParameters, "Downpayment must be a non-negative number"))
    ELSE Return(Valid)

validateLoanRequest(data) ==
    IF IsNullish(data)
    THEN Throw("TypeError", "Cannot read properties of " \o data.t \o " (reading 'orderId')")
    ELSE IF MissingFields(data.f) # {}
    THEN Return(Invalid(errorCodes.missingParameters,
                        "Missing required parameter: " \o FirstMissing(data.f)))
    ELSE IF OrderIdInvalid(data.f)
    THEN Return(Invalid(errorCodes.missingParameters, "Order ID format is invalid"))
    ELSE IF TransactionIdInvalid(data.f)
    THEN Return(Invalid(errorCodes.missingParameters, "Transaction ID format is invalid"))
    ELSE IF LoanAmountInvalid(data.f)
    THEN Return(Invalid(errorCodes.invalidLoanAmount,
                        "Loan amount must be between 10000 and 10000000"))
    ELSE IF TenureInvalid(data.f)
    THEN Return(Invalid(errorCodes.invalidTenure, "Tenure must be between 3 and 84 months"))
    ELSE IF RoiInvalid(data.f)
    THEN Return(Invalid(errorCodes.missingParameters, "ROI must be between 5.5% and 24%"))
    ELSE IF DownpaymentInvalid(data.f)
    THEN Return(Invalid(errorCodes.missingParameters, "Downpayment must be a non-negative number"))
    ELSE Return(Valid)

\* requestData.data.backRedirectionURL || ""
RedirectionURL(data) ==
    IF Truthy(data.f.backRedirectionURL) THEN data.f.backRedirectionURL ELSE JsStr(<<>>)

\* processLoanOffer computing the schedule of the request before it validates it
processLoanOffer_SchedulesFirst(requestData) ==
    IF ~validateToken(requestData.token)
    THEN [response |-> authError("Invalid or expired token"),
          calls |-> <<"validateToken", "authError">>]
    ELSE LET validationResult == validateLoanRequest(requestData.data)
             calls == <<"validateToken", "generateAmortizationSchedule", "calculateEMI",
                        "validateLoanRequest">>
         IN  IF validationResult.threw
             THEN [response |-> serverError(validationResult.val),
                   calls |-> calls \o <<"serverError">>]
             ELSE IF ~validationResult.val.isValid
             THEN [response |-> errorResponse(validationResult.val.errorCode,
                                              validationResult.val.message),
                   calls |-> calls \o <<"errorResponse">>]
             ELSE [response |-> successResponse([errorMessage |-> "", errorCode |-> "",
                                                 redirectionURL |-> RedirectionURL(requestData.data)]),
                   calls |-> calls \o <<"successResponse">>]

\* the response of processLoanOffer and, in calls, the functions it invoked
processLoanOffer(requestData) ==
    IF ~validateToken(requestData.token)
    THEN [response |-> authError("Invalid or expired token"),
          calls |-> <<"validateToken", "authError">>]
    ELSE LET validationResult == validateLoanRequest(requestData.data)
         IN  IF validationResult.threw
             THEN [response |-> serverError(validationResult.val),
                   calls |-> <<"validateToken", "validateLoanRequest", "serverError">>]
             ELSE IF ~validationResult.val.isValid
             THEN [response |-> errorResponse(validationResult.val.errorCode,
                                              validationResult.val.message),
                   calls |-> <<"validateToken", "validateLoanRequest", "errorResponse">>]
             ELSE [response |-> successResponse([errorMessage |-> "", errorCode |-> "",
                                                 redirectionURL |-> RedirectionURL(requestData.data)]),
                   calls |-> <<"validateToken", "validateLoanRequest", "successResponse">>]


(***************************************************************************)
(* The calls.  Each action is one call of an exported function on inputs   *)
(* drawn from the sets below, made when no call is running (the functions  *)
(* are synchronous); op, arg and ret are the function called, its          *)
(* arguments and its outcome, trace the functions it invoked on the way.   *)
(* Finish is the caller taking the outcome, after which the next call can  *)
(* be made.                                                                *)
(***************************************************************************)
\* the longest term the calculator is called with
MaxTenure == 5

OrderIds ==
    {JsUndefined,
     JsStr(<<"O", "R", "D", "1", "2", "3", "4", "5", "6">>),
     JsStr(<<"O", "R", "D", "1", "2", "3">>),
     JsNum(123456789)}

TransactionIds ==
    {JsStr(<<"T", "X", "N", "1", "2", "3", "4">>), JsStr(<<"T", "X", "N", "1", "2", "3">>)}

LoanAmounts ==
    {JsUndefined, JsNum(minAmount - 1), JsNum(minAmount), JsNum(maxAmount + 1), JsNaN,
     JsStr(<<"5", "0", "0", "0", "0">>)}

Rois == {JsNum(minRoi - 1), JsNum(minRoi), JsNum(maxRoi + 1), JsNaN}

Tenures == {JsNull, JsNum(minTenure - 1), JsNum(minTenure), JsNum(maxTenure + 1)}

Downpayments == {JsNum(-1), JsNum(0), JsNaN}

Urls == {JsUndefined, JsStr(<<"h", "t", "t", "p", ":", "/", "/", "b">>)}

FieldMaps ==
    [orderId : OrderIds, transactionId : TransactionIds, loanAmount : LoanAmounts,
     roi : Rois, tenure : Tenures, downpayment : Downpayments,
     processingFee : {JsNum(499)},
     tvsTransactionId : {JsUndefined, JsStr(<<"T", "V", "S", "1">>)},
     backRedirectionURL : Urls]

RequestData == {JsUndefined, JsNull} \cup {JsObject(f) : f \in FieldMaps}

Tokens == {JsUndefined, JsStr([i \in 1..31 |-> "t"]), JsStr([i \in 1..32 |-> "t"])}

Principals == {-minAmount, minAmount, 25000, 100000}

CalcRois == {-120, 0, minRoi, 120, maxRoi}

CalcTenures == -1..MaxTenure

(***************************************************************************)
(* Parallel calls.  Each worker makes calls of the four functions; a call  *)
(* runs statement by statement and the statements of different workers     *)
(* interleave.  A call's parameters and locals live in its activation      *)
(* record (frames); the only state of the module outside a call is the     *)
(* configuration object it required.                                       *)
(***************************************************************************)
\* two workers, each making one call after the other
Workers == {1, 2}

\* require("../config/config"): the part the service layer reads
ConfigObject ==
    [statusCodes |-> statusCodes,
     errorCodes |-> errorCodes,
     loan |-> [minAmount |-> minAmount, maxAmount |-> maxAmount, minTenure |-> minTenure,
               maxTenure |-> maxTenure, minRoi |-> minRoi, maxRoi |-> maxRoi]]

\* the argument lists the workers call with
WorkerFields ==
    {[orderId |-> JsStr(<<"O", "R", "D", "1", "2", "3", "4", "5", "6">>),
      transactionId |-> JsStr(<<"T", "X", "N", "1", "2", "3", "4">>),
      loanAmount |-> JsNum(amount), roi |-> JsNum(minRoi), tenure |-> JsNum(minTenure),
      downpayment |-> JsNum(0), processingFee |-> JsNum(499),
      tvsTransactionId |-> JsStr(<<"T", "V", "S", "1">>),
      backRedirectionURL |-> JsUndefined] : amount \in {minAmount - 1, minAmount}}

WorkerTokens == {JsStr([i \in 1..31 |-> "t"]), JsStr([i \in 1..32 |-> "t"])}

NoCall ==
    [fn |-> "none", token |-> JsUndefined, data |-> JsUndefined,
     principal |-> 0, roi |-> 0, tenure |-> 0]

WorkerCalls ==
    {[NoCall EXCEPT !.fn = "validateLoanRequest", !.data = d] :
        d \in {JsNull} \cup {JsObject(f) : f \in {g \in WorkerFields : LoanAmountInvalid(g)}}}
    \cup {[NoCall EXCEPT !.fn = "processLoanOffer", !.token = t, !.data = JsObject(f)] :
        t \in WorkerTokens, f \in {g \in WorkerFields : ~LoanAmountInvalid(g)}}
    \cup {[NoCall EXCEPT !.fn = "calculateEMI", !.principal = a[1], !.roi = a[2], !.tenure = a[3]] :
        a \in {<<minAmount, minRoi, 3>>}}
    \cup {[NoCall EXCEPT !.fn = "generateAmortizationSchedule",
                         !.principal = a[1], !.roi = a[2], !.tenure = a[3]] :
        a \in {<<minAmount, minRoi, 2>>, <<25000, 120, 2>>}}

\* an activation record none of whose bindings is initialised
EmptyFrame ==
    [token |-> JsUndefined, data |-> JsUndefined, principal |-> 0, roi |-> 0, tenure |-> 0,
     monthlyRate |-> NaN, emi |-> NaN, balance |-> NaN, month |-> 0, schedule |-> <<>>]

\* every call running in one activation record, as if the parameters and locals
\* were bindings of the module
FrameOf_Module(w) == 1

\* the activation record the call of worker w runs in: its own
FrameOf(w) == w

\* a new call finding in schedule what the call before it left there, as if
\* schedule were created once for all calls
NewFrame_KeepsSchedule(w, c) ==
    [EmptyFrame EXCEPT !.token = c.token, !.data = c.data, !.principal = c.principal,
                       !.roi = c.roi, !.tenure = c.tenure,
                       !.schedule = frames[FrameOf(w)].schedule]

\* the activation record of a new call c of worker w: the parameters bound to
\* the arguments, and const schedule = []
NewFrame(w, c) ==
    [EmptyFrame EXCEPT !.token = c.token, !.data = c.data, !.principal = c.principal,
                       !.roi = c.roi, !.tenure = c.tenure, !.schedule = <<>>]

Idle == [pc |-> "idle", call |-> NoCall, result |-> <<>>]

\* the calls of generateAmortizationSchedule that returned: per argument list, the
\* schedules returned and whether it was called once or more often
NoneReturned == {}

(***************************************************************************)
(* The loanOffer route: POST /fkApiServices.do dispatches on the action,    *)
(* runs authenticateToken with a callback that runs the controller's        *)
(* processLoanOfferRequest.  http is the request in progress: where its     *)
(* handling is, the request object, the responses sent (res.status().json), *)
(* how often authenticateToken called next and which handlers ran.          *)
(***************************************************************************)
\* typeof token === "string" && token.length >= 32 of a truthy token
isValidTokenFormat(token) == Truthy(token) /\ token.t = "string" /\ Len(token.s) >= 32

\* the decoded payload, or JsNull; a token crypto cannot hash makes update() throw,
\* which verifyToken catches and answers with null; userId is the hash of the token
verifyToken(token) ==
    IF token.t = "string" /\ isValidTokenFormat(token)
    THEN [t |-> "payload", valid |-> TRUE, userId |-> <<"user_", "hmac", token.s>>]
    ELSE JsNull

\* processLoanOfferRequest(req, res): the status and the body it sends
processLoanOfferRequest(req) ==
    IF ~Truthy(req.body)
    THEN [status |-> 400, body |-> validationError("Request body is missing")]
    ELSE IF ~Truthy(req.body.f.token)
    THEN [status |-> 401, body |-> authError("Authentication token is missing")]
    ELSE IF ~Truthy(req.body.f.data)
    THEN [status |-> 400, body |-> validationError("Loan request data is missing")]
    ELSE LET response == processLoanOffer(req.body.f).response
         IN  [status |-> IF response.statusCode = "SR" THEN 200 ELSE 400, body |-> response]

\* the response of the route to an action it does not support
UnsupportedAction ==
    [status |-> 400,
     body |-> [statusCode |-> statusCodes.error, statusMessage |-> "Error",
               data |-> [errorMessage |-> "Unsupported action parameter",
                         errorCode |-> errorCodes.missingParameters,
                         redirectionURL |-> JsStr(<<>>)]]]

RouteActions == {"loanOffer", "unknown"}

RouteTokens ==
    {JsUndefined, JsNull, JsNum(123456789), JsStr(<<>>), JsStr([i \in 1..31 |-> "t"]),
     JsStr([i \in 1..32 |-> "t"]), JsStr([i \in 1..33 |-> "t"])}

RouteData == {JsUndefined, JsNull} \cup {JsObject(f) : f \in WorkerFields}

RouteBodies ==
    {JsUndefined} \cup {JsObject([token |-> t, data |-> d]) : t \in RouteTokens, d \in RouteData}

NoRequest ==
    [pc |-> "idle", action |-> "", body |-> JsUndefined, user |-> JsUndefined,
     sent |-> <<>>, nextCalls |-> 0, ran |-> <<>>]

\* authenticateToken going on with the next stage after an error response, as if
\* the return were missing
AfterReject_FallsThrough(stage) == stage

\* where authenticateToken goes on after it sent an error response at a stage:
\* return res.status(..).json(..) leaves the function
AfterReject(stage) == "end"

Init ==
    /\ http = NoRequest
    /\ op = "idle"
    /\ arg = <<>>
    /\ ret = <<>>
    /\ trace = <<>>
    /\ workers = [w \in Workers |-> Idle]
    /\ frames = [w \in Workers |-> EmptyFrame]
    /\ config = ConfigObject
    /\ returned = NoneReturned

\* loanService.validateLoanRequest(data)
Validate(data) ==
    /\ op = "idle"
    /\ op' = "validateLoanRequest"
    /\ arg' = [data |-> data]
    /\ ret' = validateLoanRequest(data)
    /\ trace' = <<>>
    /\ UNCHANGED <<workerVars, http>>

\* loanService.processLoanOffer(requestData)
ProcessLoanOffer(requestData) ==
    /\ op = "idle"
    /\ op' = "processLoanOffer"
    /\ arg' = requestData
    /\ ret' = Return(processLoanOffer(requestData).response)
    /\ trace' = processLoanOffer(requestData).calls
    /\ UNCHANGED <<workerVars, http>>

\* loanService.calculateEMI(principal, roi, tenure)
CalculateEMI(principal, roi, tenure) ==
    /\ op = "idle"
    /\ op' = "calculateEMI"
    /\ arg' = [principal |-> principal, roi |-> roi, tenure |-> tenure]
    /\ ret' = Return(calculateEMI(principal, roi, tenure))
    /\ trace' = <<>>
    /\ UNCHANGED <<workerVars, http>>

\* loanService.generateAmortizationSchedule(principal, roi, tenure)
GenerateSchedule(principal, roi, tenure) ==
    /\ op = "idle"
    /\ op' = "generateAmortizationSchedule"
    /\ arg' = [principal |-> principal, roi |-> roi, tenure |-> tenure]
    /\ ret' = Return(generateAmortizationSchedule(principal, roi, tenure))
    /\ trace' = <<"calculateEMI">>
    /\ UNCHANGED <<workerVars, http>>

\* the caller has the outcome: nothing of the call is kept
Finish ==
    /\ op # "idle"
    /\ op' = "idle"
    /\ arg' = <<>>
    /\ ret' = <<>>
    /\ trace' = <<>>
    /\ UNCHANGED <<workerVars, http>>

NextService ==
    \/ /\ op = "idle"
       /\ \E data \in RequestData : Validate(data)
    \/ /\ op = "idle"
       /\ \E token \in Tokens, data \in RequestData :
              ProcessLoanOffer([token |-> token, data |-> data])
    \/ Finish

NextCalc ==
    \/ /\ op = "idle"
       /\ \E principal \in Principals, roi \in CalcRois, tenure \in CalcTenures :
              CalculateEMI(principal, roi, tenure)
    \/ /\ op = "idle"
       /\ \E principal \in Principals, roi \in CalcRois, tenure \in CalcTenures :
              GenerateSchedule(principal, roi, tenure)
    \/ Finish

\* worker w calls c
Enter(w, c) ==
    /\ workers[w].pc = "idle"
    /\ workers' = [workers EXCEPT ![w] = [pc |-> c.fn, call |-> c, result |-> <<>>]]
    /\ frames' = [frames EXCEPT ![FrameOf(w)] = NewFrame(w, c)]
    /\ UNCHANGED <<config, returned>>

\* the call of worker w ends with result r
Done(w, r) == workers' = [workers EXCEPT ![w].pc = "done", ![w].result = r]

\* validateLoanRequest(data): its body
ValidateBody(w) ==
    /\ workers[w].pc = "validateLoanRequest"
    /\ Done(w, validateLoanRequest(frames[FrameOf(w)].data))
    /\ UNCHANGED <<frames, config, returned>>

\* processLoanOffer: if (!validateToken(requestData.token)) return authError(..)
ProcessTokenCheck(w) ==
    /\ workers[w].pc = "processLoanOffer"
    /\ IF ~validateToken(frames[FrameOf(w)].token)
       THEN Done(w, authError("Invalid or expired token"))
       ELSE workers' = [workers EXCEPT ![w].pc = "processLoanOffer:validate"]
    /\ UNCHANGED <<frames, config, returned>>

\* processLoanOffer: the validation and the response made of it
ProcessValidate(w) ==
    /\ workers[w].pc = "processLoanOffer:validate"
    /\ Done(w, processLoanOffer([token |-> frames[FrameOf(w)].token,
                                 data |-> frames[FrameOf(w)].data]).response)
    /\ UNCHANGED <<frames, config, returned>>

\* calculateEMI(principal, roi, tenure): its body
EmiBody(w) ==
    /\ workers[w].pc = "calculateEMI"
    /\ LET f == frames[FrameOf(w)]
       IN  Done(w, calculateEMI(f.principal, f.roi, f.tenure))
    /\ UNCHANGED <<frames, config, returned>>

\* generateAmortizationSchedule: monthlyRate, emi, balance = principal, month = 1
ScheduleProlog(w) ==
    /\ workers[w].pc = "generateAmortizationSchedule"
    /\ workers' = [workers EXCEPT ![w].pc = "generateAmortizationSchedule:loop"]
    /\ LET f == frames[FrameOf(w)]
       IN  frames' = [frames EXCEPT ![FrameOf(w)] =
                         [f EXCEPT !.monthlyRate = MonthlyRate(f.roi),
                                   !.emi = calculateEMI(f.principal, f.roi, f.tenure),
                                   !.balance = FInt(f.principal),
                                   !.month = 1]]
    /\ UNCHANGED <<config, returned>>

\* generateAmortizationSchedule: one turn of the loop
ScheduleTurn(w) ==
    /\ workers[w].pc = "generateAmortizationSchedule:loop"
    /\ frames[FrameOf(w)].month <= frames[FrameOf(w)].tenure
    /\ LET f == frames[FrameOf(w)]
           interest == FMul(f.balance, f.monthlyRate)
           principalPaid == FSub(f.emi, interest)
           balance == FSub(f.balance, principalPaid)
       IN  frames' = [frames EXCEPT ![FrameOf(w)] =
                         [f EXCEPT !.balance = balance,
                                   !.schedule = Append(f.schedule,
                                       ScheduleEntry(f.month, f.emi, principalPaid, interest, balance)),
                                   !.month = f.month + 1]]
    /\ UNCHANGED <<workers, config, returned>>

\* the record of the returned schedules after schedule was returned for call c
Returned(c, schedule) ==
    LET args == <<c.principal, c.roi, c.tenure>>
        before == {x \in returned : x.args = args}
    IN  (returned \ before)
        \cup {[args |-> args,
               schedules |-> UNION {x.schedules : x \in before} \cup {schedule},
               again |-> before # {}]}

\* generateAmortizationSchedule: the loop is over, return schedule
ScheduleReturn(w) ==
    /\ workers[w].pc = "generateAmortizationSchedule:loop"
    /\ frames[FrameOf(w)].month > frames[FrameOf(w)].tenure
    /\ Done(w, frames[FrameOf(w)].schedule)
    /\ returned' = Returned(workers[w].call, frames[FrameOf(w)].schedule)
    /\ UNCHANGED <<frames, config>>

\* the caller of worker w has the result; the activation record is garbage
Leave(w) ==
    /\ workers[w].pc = "done"
    /\ workers' = [workers EXCEPT ![w] = Idle]
    /\ UNCHANGED <<frames, config, returned>>

NextWorkers ==
    \/ /\ UNCHANGED <<callVars, http>>
       /\ \E w \in Workers : workers[w].pc = "idle" /\ \E c \in WorkerCalls : Enter(w, c)
    \/ UNCHANGED <<callVars, http>> /\ \E w \in Workers : ValidateBody(w)
    \/ UNCHANGED <<callVars, http>> /\ \E w \in Workers : ProcessTokenCheck(w)
    \/ UNCHANGED <<callVars, http>> /\ \E w \in Workers : ProcessValidate(w)
    \/ UNCHANGED <<callVars, http>> /\ \E w \in Workers : EmiBody(w)
    \/ UNCHANGED <<callVars, http>> /\ \E w \in Workers : ScheduleProlog(w)
    \/ UNCHANGED <<callVars, http>> /\ \E w \in Workers : ScheduleTurn(w)
    \/ UNCHANGED <<callVars, http>> /\ \E w \in Workers : ScheduleReturn(w)
    \/ UNCHANGED <<callVars, http>> /\ \E w \in Workers : Leave(w)

\* a request arrives at POST /fkApiServices.do
Receive(action, body) ==
    /\ http.pc = "idle"
    /\ http' = [NoRequest EXCEPT !.pc = "route", !.action = action, !.body = body]

\* res.status(status).json(body)
Send(h, response, by) == [h EXCEPT !.sent = Append(@, [status |-> response.status,
                                                       body |-> response.body, by |-> by])]

\* the route handler: if (action === "loanOffer") authenticateToken(..) else 400
Dispatch ==
    /\ http.pc = "route"
    /\ http' = IF http.action = "loanOffer"
               THEN [http EXCEPT !.pc = "auth:body", !.ran = Append(@, "authenticateToken")]
               ELSE [Send(http, UnsupportedAction, "route") EXCEPT !.pc = "end"]

\* authenticateToken: if (!req.body) return res.status(400).json(..)
AuthBody ==
    /\ http.pc = "auth:body"
    /\ http' = IF ~Truthy(http.body)
               THEN [Send(http, [status |-> 400,
                                 body |-> errorResponse(errorCodes.missingParameters,
                                                        "Request body is missing")],
                          "authenticateToken")
                        EXCEPT !.pc = AfterReject("auth:token")]
               ELSE [http EXCEPT !.pc = "auth:token"]

\* authenticateToken: if (!token) return res.status(401).json(..)
AuthToken ==
    /\ http.pc = "auth:token"
    /\ Truthy(http.body)
    /\ http' = IF ~Truthy(http.body.f.token)
               THEN [Send(http, [status |-> 401,
                                 body |-> authError("Authentication token is missing")],
                          "authenticateToken")
                        EXCEPT !.pc = AfterReject("auth:verify")]
               ELSE [http EXCEPT !.pc = "auth:verify"]

\* authenticateToken: if (!verifyToken(token)) return res.status(401).json(..)
AuthVerify ==
    /\ http.pc = "auth:verify"
    /\ Truthy(http.body)
    /\ http' = IF verifyToken(http.body.f.token) = JsNull
               THEN [Send(http, [status |-> 401, body |-> authError("Invalid or expired token")],
                          "authenticateToken")
                        EXCEPT !.pc = AfterReject("auth:expiry")]
               ELSE [http EXCEPT !.pc = "auth:expiry"]

\* authenticateToken: if (decodedToken.expiresAt < Date.now()) return 401, else set
\* req.user and call next().  expiresAt is thirty minutes after the Date.now() of
\* verifyToken, so it has passed only when the clock moved that far in between.
AuthExpiry(clockMoved) ==
    /\ http.pc = "auth:expiry"
    /\ Truthy(http.body)
    /\ http' = IF clockMoved
               THEN [Send(http, [status |-> 401, body |-> authError("Token has expired")],
                          "authenticateToken")
                        EXCEPT !.pc = AfterReject("controller")]
               ELSE [http EXCEPT !.pc = "controller",
                                 !.user = [id |-> verifyToken(http.body.f.token).userId,
                                           token |-> http.body.f.token],
                                 !.nextCalls = @ + 1,
                                 !.ran = Append(@, "processLoanOfferRequest")]

\* the callback given as next: loanController.processLoanOfferRequest(req, res)
Controller ==
    /\ http.pc = "controller"
    /\ http' = [Send(http, processLoanOfferRequest(http), "processLoanOfferRequest")
                   EXCEPT !.pc = "end"]

\* the request is over
Close ==
    /\ http.pc = "end"
    /\ http' = NoRequest

NextRoute ==
    \/ UNCHANGED <<callVars, workerVars>> /\ \E a \in RouteActions, b \in RouteBodies : Receive(a, b)
    \/ UNCHANGED <<callVars, workerVars>> /\ Dispatch
    \/ UNCHANGED <<callVars, workerVars>> /\ AuthBody
    \/ UNCHANGED <<callVars, workerVars>> /\ AuthToken
    \/ UNCHANGED <<callVars, workerVars>> /\ AuthVerify
    \/ UNCHANGED <<callVars, workerVars>> /\ \E clockMoved \in BOOLEAN : AuthExpiry(clockMoved)
    \/ UNCHANGED <<callVars, workerVars>> /\ Controller
    \/ UNCHANGED <<callVars, workerVars>> /\ Close

Next == NextService \/ NextCalc \/ NextWorkers \/ NextRoute

\* every call of the service layer
Spec == Init /\ [][Next]_vars

\* the validator and the evaluator
SpecService == Init /\ [][NextService]_vars

\* the calculator and the scheduler
SpecCalc == Init /\ [][NextCalc]_vars

\* parallel workers calling the four functions
SpecWorkers == Init /\ [][NextWorkers]_vars

\* requests to the loanOffer route
SpecRoute == Init /\ [][NextRoute]_vars

(***************************************************************************)
(* The validator's rules, in the order the specification gives them.       *)
(***************************************************************************)
IsMap(data) == data.t = "object"

RuleBroken(i, f) ==
    CASE i = 1 -> MissingFields(f) # {}
      [] i = 2 -> OrderIdInvalid(f)
      [] i = 3 -> TransactionIdInvalid(f)
      [] i = 4 -> LoanAmountInvalid(f)
      [] i = 5 -> TenureInvalid(f)
      [] i = 6 -> RoiInvalid(f)
      [] i = 7 -> DownpaymentInvalid(f)

BrokenRules(f) == {i \in 1..7 : RuleBroken(i, f)}

FirstBroken(f) == CHOOSE i \in BrokenRules(f) : \A j \in BrokenRules(f) : i <= j

\* a field map that breaks no rule
GoodFields ==
    [orderId |-> JsStr(<<"O", "R", "D", "1", "2", "3", "4", "5", "6">>),
     transactionId |-> JsStr(<<"T", "X", "N", "1", "2", "3", "4">>),
     loanAmount |-> JsNum(minAmount), roi |-> JsNum(minRoi), tenure |-> JsNum(minTenure),
     downpayment |-> JsNum(0), processingFee |-> JsNum(499),
     tvsTransactionId |-> JsStr(<<"T", "V", "S", "1">>),
     backRedirectionURL |-> JsUndefined]

\* the map that breaks rule i as f does and no other rule: GoodFields with what
\* rule i reads taken from f
OnlyRule(i, f) ==
    CASE i = 1 -> [x \in DOMAIN GoodFields |-> IF IsNullish(f[x]) THEN f[x] ELSE GoodFields[x]]
      [] i = 2 -> [GoodFields EXCEPT !.orderId = f.orderId]
      [] i = 3 -> [GoodFields EXCEPT !.transactionId = f.transactionId]
      [] i = 4 -> [GoodFields EXCEPT !.loanAmount = f.loanAmount]
      [] i = 5 -> [GoodFields EXCEPT !.tenure = f.tenure]
      [] i = 6 -> [GoodFields EXCEPT !.roi = f.roi]
      [] i = 7 -> [GoodFields EXCEPT !.downpayment = f.downpayment]

\* C1: on a field map that breaks a rule, validateLoanRequest returns the result of
\* the earliest broken rule in the order presence, orderId, transactionId, loanAmount,
\* tenure, roi, downpayment: the failure it returns for the map that breaks that rule
\* alone, and not the failure of any later rule the map breaks as well; a map with a missing required field gets the missing-parameter result that
\* names its first missing field, whatever the other fields hold.
C1_EarliestBrokenRule ==
    (op = "validateLoanRequest" /\ IsMap(arg.data) /\ BrokenRules(arg.data.f) # {}) =>
        /\ ~ret.threw
        /\ ~ret.val.isValid
        /\ ret = validateLoanRequest(JsObject(OnlyRule(FirstBroken(arg.data.f), arg.data.f)))
        /\ MissingFields(arg.data.f) = {} =>
               \A j \in BrokenRules(arg.data.f) \ {FirstBroken(arg.data.f)} :
                   validateLoanRequest(JsObject(OnlyRule(j, arg.data.f))) # ret
        /\ MissingFields(arg.data.f) # {} =>
               /\ ret.val.errorCode = errorCodes.missingParameters
               /\ ret.val.message = "Missing required parameter: " \o FirstMissing(arg.data.f)

\* a request with every field present that breaks the orderId, loanAmount and tenure
\* rules at once and is answered with the orderId failure
C1_Witness ==
    /\ op = "validateLoanRequest"
    /\ IsMap(arg.data)
    /\ {2, 4, 5} \subseteq BrokenRules(arg.data.f)
    /\ FirstBroken(arg.data.f) = 2
    /\ ret.val.message = "Order ID format is invalid"

\* the category of each rule the claim names a code for (the downpayment rule has none)
Category(i) ==
    CASE i = 1 -> "missing-parameter"
      [] i \in {2, 3} -> "invalid-format"
      [] i = 4 -> "invalid-amount"
      [] i = 5 -> "invalid-tenure"
      [] i = 6 -> "invalid-rate"

\* a field map that breaks every rule
WorstFields ==
    [orderId |-> JsStr(<<"O", "R", "D", "1", "2", "3">>),
     transactionId |-> JsStr(<<"T", "X", "N", "1", "2", "3">>),
     loanAmount |-> JsNum(minAmount - 1), roi |-> JsNum(minRoi - 1),
     tenure |-> JsNum(minTenure - 1), downpayment |-> JsNum(-1), processingFee |-> JsNum(499),
     tvsTransactionId |-> JsUndefined,
     backRedirectionURL |-> JsUndefined]

\* the errorCode of a failure of rule j
CodeOfRule(j) == validateLoanRequest(JsObject(OnlyRule(j, WorstFields))).val.errorCode

\* C2: a failing result carries the code of the category of the rule that failed, so
\* no failure carries the code that a failure of another category carries.
C2_CategoryCodesDistinct ==
    (/\ op = "validateLoanRequest" /\ IsMap(arg.data) /\ BrokenRules(arg.data.f) # {}
     /\ FirstBroken(arg.data.f) \in 1..6) =>
        \A j \in 1..6 :
            Category(j) # Category(FirstBroken(arg.data.f)) => ret.val.errorCode # CodeOfRule(j)

\* v is a number within [lo, hi]
Within(v, lo, hi) == v.t = "number" /\ ~v.nan /\ lo <= v.n /\ v.n <= hi

\* C3: a field map that validateLoanRequest accepts has loanAmount within
\* [minAmount, maxAmount], tenure within [minTenure, maxTenure], roi within
\* [minRoi, maxRoi] and downpayment >= 0.
C3_ValidWithinBounds ==
    (op = "validateLoanRequest" /\ ~ret.threw /\ ret.val.isValid) =>
        /\ Within(arg.data.f.loanAmount, minAmount, maxAmount)
        /\ Within(arg.data.f.tenure, minTenure, maxTenure)
        /\ Within(arg.data.f.roi, minRoi, maxRoi)
        /\ arg.data.f.downpayment.t = "number"
        /\ ~arg.data.f.downpayment.nan
        /\ arg.data.f.downpayment.n >= 0

\* C4: validateLoanRequest returns a result for every input, an absent field map
\* included: it never throws.
C4_NeverThrows == op = "validateLoanRequest" => ~ret.threw

\* a call of the calculator whose rate or term is zero or negative
DegenerateCall == arg.roi <= 0 \/ arg.tenure <= 0

\* a number that is neither NaN, nor an infinity, nor negative
FiniteNonNegative(x) == x.k = "fin" /\ FSign(x) >= 0

\* C5: calculateEMI and generateAmortizationSchedule fail with InvalidInput when the
\* rate or the term is zero or negative, and for no input return NaN or a negative
\* instalment.
C5_RejectsDegenerateInput ==
    /\ (op \in {"calculateEMI", "generateAmortizationSchedule"} /\ DegenerateCall) =>
           ret.threw /\ ret.val.name = "InvalidInput"
    /\ (op = "calculateEMI" /\ ~ret.threw) => FiniteNonNegative(ret.val)
    /\ (op = "generateAmortizationSchedule" /\ ~ret.threw) =>
           \A i \in 1..Len(ret.val) : FiniteNonNegative(ret.val[i].emi)

\* a call of the calculator with principal, rate and term inside the configured bounds
InBoundsCall ==
    /\ minAmount <= arg.principal /\ arg.principal <= maxAmount
    /\ minRoi <= arg.roi /\ arg.roi <= maxRoi
    /\ minTenure <= arg.tenure /\ arg.tenure <= maxTenure

\* the cents of the principalPaid column of the first k entries
RECURSIVE PrincipalPaidCents(_, _)
PrincipalPaidCents(schedule, k) ==
    IF k = 0 THEN 0
    ELSE PrincipalPaidCents(schedule, k - 1) + CentsOf(schedule[k].principalPaid)

\* C6: for principal, rate and term inside the configured bounds the principalPaid
\* column of the schedule sums to the principal within one cent and the last entry's
\* balance is exactly 0.00.
C6_ScheduleRepaysPrincipal ==
    (op = "generateAmortizationSchedule" /\ ~ret.threw /\ InBoundsCall) =>
        LET paid == PrincipalPaidCents(ret.val, Len(ret.val))
            last == ret.val[Len(ret.val)].balance
        IN  /\ paid - 100 * arg.principal \in -1..1
            /\ last.k = "fin"
            /\ CentsOf(last) = 0

\* an authenticated request holding a field map with every required field present and
\* both identifiers well formed
WellFormedRequest ==
    /\ validateToken(arg.token)
    /\ IsMap(arg.data)
    /\ BrokenRules(arg.data.f) \cap {1, 2, 3} = {}

Invoked(name) == \E i \in 1..Len(trace) : trace[i] = name

\* C7: processLoanOffer answers an authenticated, well-formed request whose loanAmount
\* is below minAmount with a rejection carrying the invalid-loan-amount code, and
\* invokes neither calculateEMI nor generateAmortizationSchedule.
C7_LowAmountRejectedUncomputed ==
    (/\ op = "processLoanOffer" /\ WellFormedRequest
     /\ arg.data.f.loanAmount.t = "number" /\ ~arg.data.f.loanAmount.nan
     /\ arg.data.f.loanAmount.n < minAmount) =>
        /\ ret.val.statusCode = statusCodes.error
        /\ ret.val.data.errorCode = errorCodes.invalidLoanAmount
        /\ ret.val.data.errorMessage = "Loan amount must be between 10000 and 10000000"
        /\ ~Invoked("calculateEMI")
        /\ ~Invoked("generateAmortizationSchedule")
        /\ Invoked("validateLoanRequest")

\* such a request, whose other fields break no rule, answered with the rejection
C7_Witness ==
    /\ op = "processLoanOffer"
    /\ WellFormedRequest
    /\ arg.data.f.loanAmount = JsNum(minAmount - 1)
    /\ BrokenRules(arg.data.f) = {4}
    /\ ret.val.statusCode = statusCodes.error
    /\ ret.val.data.errorCode = errorCodes.invalidLoanAmount

C9_OneEntryPerMonth ==
    (op = "generateAmortizationSchedule") =>
        /\ ~ret.threw
        /\ Len(ret.val) = (IF arg.tenure > 0 THEN arg.tenure ELSE 0)
        /\ \A i \in 1..Len(ret.val) : ret.val[i].month = i

\* a schedule of several months whose last entry is the entry of the last month
C9_Witness ==
    /\ op = "generateAmortizationSchedule"
    /\ arg.tenure >= minTenure
    /\ Len(ret.val) = arg.tenure
    /\ ret.val[arg.tenure].month = arg.tenure

\* C10: the balance of every entry of a schedule is a number that is not negative.
C10_BalanceNeverNegative ==
    (op = "generateAmortizationSchedule" /\ ~ret.threw) =>
        \A i \in 1..Len(ret.val) : FiniteNonNegative(ret.val[i].balance)

\* x === y of two JavaScript numbers: NaN equals nothing, itself included
StrictEquals(x, y) ==
    /\ x.k # "nan" /\ y.k # "nan"
    /\ x.k = y.k
    /\ x.k = "fin" => ZIsZero(FSub(x, y).n)

\* C11: for a term of at least one month calculateEMI(p, r, t) equals the emi of the
\* first entry of generateAmortizationSchedule(p, r, t), and every entry of that
\* schedule carries that same emi.
C11_EmiMatchesSchedule ==
    (op = "generateAmortizationSchedule" /\ ~ret.threw /\ arg.tenure >= 1) =>
        /\ Len(ret.val) >= 1
        /\ StrictEquals(calculateEMI(arg.principal, arg.roi, arg.tenure), ret.val[1].emi)
        /\ \A i \in 1..Len(ret.val) : StrictEquals(ret.val[i].emi, ret.val[1].emi)

\* the same statement for the calls whose EMI is a number: what is left of C11 once
\* the NaN of a zero rate is set aside
C11_HoldsWhereEmiIsNumber ==
    (/\ op = "generateAmortizationSchedule" /\ ~ret.threw /\ arg.tenure >= 1
     /\ calculateEMI(arg.principal, arg.roi, arg.tenure).k # "nan") =>
        /\ StrictEquals(calculateEMI(arg.principal, arg.roi, arg.tenure), ret.val[1].emi)
        /\ \A i \in 1..Len(ret.val) : StrictEquals(ret.val[i].emi, ret.val[1].emi)

\* what call c returns when it runs alone
AloneResult(c) ==
    CASE c.fn = "validateLoanRequest" -> validateLoanRequest(c.data)
      [] c.fn = "processLoanOffer" -> processLoanOffer([token |-> c.token, data |-> c.data]).response
      [] c.fn = "calculateEMI" -> calculateEMI(c.principal, c.roi, c.tenure)
      [] c.fn = "generateAmortizationSchedule" ->
             generateAmortizationSchedule(c.principal, c.roi, c.tenure)

\* the parameters of the running call of worker w hold the arguments it was called with
HoldsOwnArguments(w) ==
    LET c == workers[w].call
        f == frames[FrameOf(w)]
    IN  /\ f.token = c.token /\ f.data = c.data
        /\ f.principal = c.principal /\ f.roi = c.roi /\ f.tenure = c.tenure

\* C12: calls of validateLoanRequest, calculateEMI, generateAmortizationSchedule and
\* processLoanOffer interleaved in parallel workers are independent: the configuration
\* is never written, no worker's step changes what a running call of another worker
\* reads, and every call returns what it returns when it runs alone.
C12_CallsIndependent ==
    /\ config = ConfigObject
    /\ \A w \in Workers :
        /\ workers[w].pc \notin {"idle", "done"} => HoldsOwnArguments(w)
        /\ workers[w].pc = "done" => workers[w].result = AloneResult(workers[w].call)

\* a schedule returned to one worker while another worker was in the middle of the
\* loop of a schedule for other arguments
C12_Witness ==
    \E v, w \in Workers :
        /\ v # w
        /\ workers[v].pc = "done"
        /\ workers[v].call.fn = "generateAmortizationSchedule"
        /\ workers[v].result = AloneResult(workers[v].call)
        /\ workers[w].pc = "generateAmortizationSchedule:loop"
        /\ frames[FrameOf(w)].month = 2
        /\ workers[w].call # workers[v].call

\* C13: the calls of generateAmortizationSchedule with one argument list all return
\* one and the same sequence of entries, whatever their order and whatever calls run
\* in between.
C13_ScheduleDeterministic ==
    \A x \in returned : Cardinality(x.schedules) = 1

\* an argument list the schedule was returned for more than once, calls with other
\* arguments having returned as well
C13_Witness ==
    \E x, y \in returned :
        /\ x.again
        /\ y.args # x.args
        /\ x.schedules = {generateAmortizationSchedule(x.args[1], x.args[2], x.args[3])}

\* the responses authenticateToken sent for the request in progress
AuthSent == {i \in 1..Len(http.sent) : http.sent[i].by = "authenticateToken"}

Ran(handler) == \E i \in 1..Len(http.ran) : http.ran[i] = handler

\* authenticateToken has returned
AuthOver == Ran("authenticateToken") /\ http.pc \in {"controller", "end"}

\* C14: for every request authenticateToken either sends one error response (400 for
\* a missing body, 401 for a missing, malformed or expired token) and does not call
\* next, or sets req.user and calls next once without sending a response; on the
\* loanOffer route processLoanOfferRequest runs only after authentication succeeded,
\* and no request gets more than one response.
C14_RejectOrContinue ==
    /\ Len(http.sent) <= 1
    /\ Cardinality(AuthSent) + http.nextCalls <= 1
    /\ AuthOver => Cardinality(AuthSent) + http.nextCalls = 1
    /\ http.nextCalls = 1 <=> http.user # JsUndefined
    /\ AuthSent # {} =>
           /\ http.sent[1].status = (IF ~Truthy(http.body) THEN 400 ELSE 401)
           /\ http.sent[1].body.statusCode = statusCodes.error
           /\ ~Ran("processLoanOfferRequest")
    /\ Ran("processLoanOfferRequest") =>
           /\ AuthOver
           /\ http.nextCalls = 1
           /\ verifyToken(http.body.f.token) # JsNull
           /\ http.user.token = http.body.f.token
    /\ http.pc = "end" => Len(http.sent) = 1

\* a request that passed authenticateToken, with req.user set and next called once,
\* and was answered by the controller alone
C14_Witness ==
    /\ http.pc = "end"
    /\ http.nextCalls = 1
    /\ http.user # JsUndefined
    /\ AuthSent = {}
    /\ Len(http.sent) = 1
    /\ http.sent[1].by = "processLoanOfferRequest"

\* C15: every token authenticateToken accepts is accepted by validateToken of the
\* service layer, so the response to a request that reached processLoanOffer through
\* the loanOffer route never carries the invalid-token code.
C15_AcceptedTokenStaysAccepted ==
    /\ \A token \in RouteTokens : verifyToken(token) # JsNull => validateToken(token)
    /\ Ran("processLoanOfferRequest") =>
           /\ isValidTokenFormat(http.body.f.token)
           /\ validateToken(http.body.f.token)
           /\ \A i \in 1..Len(http.sent) :
                  http.sent[i].body.data.errorCode # errorCodes.invalidToken

\* an authenticated request with loan data that processLoanOffer answered
C15_Witness ==
    /\ http.pc = "end"
    /\ Ran("processLoanOfferRequest")
    /\ Truthy(http.body.f.data)
    /\ http.sent[1].body = processLoanOffer(http.body.f).response
    /\ http.sent[1].status = 200

====
